---------------------------- MODULE Spec2Model ----------------------------
(***************************************************************************)
(* Model of src/app.py: the voting ledger (Item and Vote tables), the      *)
(* request handlers api_items, api_add_item and api_vote, and the          *)
(* request-triggered daily reset maybe_reset.                              *)
(*                                                                         *)
(* Every request is served by a thread.  A step of the model is one        *)
(* statement group of a handler between two points where another thread    *)
(* can be scheduled and observe or change shared state: a read of the      *)
(* clock, a read or write of _last_reset_date, a lock operation, one SQL   *)
(* query, or one commit.                                                   *)
(***************************************************************************)
EXTENDS Integers, Sequences, FiniteSets, Bags, TLC

\* ----- bounds of the model
NThreads == 2
MaxRequests == 3
MaxSeqRequests == 4
MaxFairRequests == 2
MaxDay == 2
MaxItemId == 2
NTokens == 2
MaxNameLen == 1

Threads == 1..NThreads
Days == 1..MaxDay
ItemIds == 1..MaxItemId
Tokens == 1..NTokens

\* Characters of item names: a whitespace, a letter in lower and upper case, another letter.
Chars == {" ", "a", "A", "b"}
NameInputs == UNION {[1..n -> Chars] : n \in 0..MaxNameLen}

\* DATABASE_URL selects the storage engine. "sqlite" (the default) does not
\* enforce foreign keys and hands out rowid = max(rowid)+1; "postgres"
\* enforces the foreign key and draws ids from a sequence.
Backends == {"sqlite", "postgres"}

VARIABLES
    backend,      \* the engine behind SQLALCHEMY_DATABASE_URI
    clock,        \* [day, after]: date in RESET_TZ, and whether time-of-day >= RESET_TIME
    lastReset,    \* _last_reset_date; 0 is None
    resetLock,    \* _reset_lock: 0 when free, else the holding thread
    items,        \* table item: id -> [name, votes, created_at]
    votes,        \* table vote: bag of <<item_id, voter_token>> rows
    itemSeq,      \* number of Item rows ever inserted (sequence value, creation order)
    rq,           \* per thread: position in its handler and its locals
    started,      \* number of requests started
    resets,       \* history: day -> number of wipes committed on that day
    asked,        \* history: <<item_id, voter>> of cast_vote calls that passed get_or_404 since the last wipe
    lastAdd,      \* history: [id, name] answered by the latest successful add_item, NoAdd after a later vote or wipe
    wipedAt       \* history: `today` -> itemSeq when this process first committed a wipe for it, NoWipe before

vars == <<backend, clock, lastReset, resetLock, items, votes, itemSeq, rq, started, resets, asked, lastAdd, wipedAt>>

\* ----- pure helpers

IsSpace(c) == c = " "

\* str.lower() of one character
LowerChar(c) == IF c = "A" THEN "a" ELSE c

\* str.lower()
Lower(s) == [k \in 1..Len(s) |-> LowerChar(s[k])]

RECURSIVE LStrip(_)
LStrip(s) == IF s # <<>> /\ IsSpace(Head(s)) THEN LStrip(Tail(s)) ELSE s

RECURSIVE RStrip(_)
RStrip(s) == IF s # <<>> /\ IsSpace(s[Len(s)]) THEN RStrip(SubSeq(s, 1, Len(s) - 1)) ELSE s

\* seeded fault: the name is used untrimmed
Strip_Omitted(s) == s

\* str.strip(): removes leading and trailing whitespace
Strip(s) == RStrip(LStrip(s))

SetMax(S) == CHOOSE x \in S : \A y \in S : y <= x

EmptyItems == [i \in {} |-> [name |-> <<>>, votes |-> 0, created_at |-> 0]]

\* number of Vote rows for (item_id, voter_token)
VoteRows(i, tok) == CopiesIn(<<i, tok>>, votes)

\* count(Vote where Vote.item_id = i)
VoteCount(i) ==
    LET S == {p \in DOMAIN votes : p[1] = i}
        RECURSIVE Sum(_)
        Sum(T) == IF T = {} THEN 0
                  ELSE LET p == CHOOSE q \in T : TRUE IN votes[p] + Sum(T \ {p})
    IN Sum(S)

\* seeded fault: the table is created without uix_item_voter
UniqueViolation_NoConstraint(i, tok) == FALSE

\* uix_item_voter: would inserting (item_id, voter_token) violate the constraint
UniqueViolation(i, tok) == VoteRows(i, tok) > 0

\* ForeignKey("item.id"): would inserting a Vote for item_id violate it
ForeignKeyViolation(i) == backend = "postgres" /\ i \notin DOMAIN items

\* the primary key the engine assigns to a new Item row
NewItemId ==
    IF backend = "sqlite"
    THEN IF DOMAIN items = {} THEN 1 ELSE SetMax(DOMAIN items) + 1
    ELSE itemSeq + 1

\* seeded fault: the duplicate test compares the names as written
ExistingByName_CaseSensitive(name) == \E i \in DOMAIN items : items[i].name = name

\* Item.query.filter(func.lower(Item.name) == name.lower()).first() is not None
ExistingByName(name) == \E i \in DOMAIN items : Lower(items[i].name) = Lower(name)

Idle == [pc |-> "idle", op |-> "none", name |-> <<>>, item_id |-> 0, voter |-> 0,
         today |-> 0, after |-> FALSE, wiped_on |-> 0, it |-> 0,
         result |-> "none", ret |-> [id |-> 0, name |-> <<>>, votes |-> 0],
         rows |-> <<>>, writes |-> 0]

NoAdd == [id |-> 0, name |-> <<>>]

NoWipe == 0 - 1

Quiet == \A t \in Threads : rq[t].pc \in {"idle", "done"}

\* first statement of a handler after maybe_reset returned
Body(op) == CASE op = "list" -> "list_items"
              [] op = "add" -> "add_check"
              [] op = "vote" -> "vote_get"

\* maybe_reset returns: its locals are gone, the handler goes on
\* (history: a listing remembers the clock reading of its reset check until it answers)
Return(t) ==
    IF rq[t].op = "list"
    THEN [rq[t] EXCEPT !.pc = Body(rq[t].op)]
    ELSE [rq[t] EXCEPT !.pc = Body(rq[t].op), !.today = 0, !.after = FALSE]

\* the handler answers: the locals of the request are gone, the answer stays
Finish(t, res) == [rq[t] EXCEPT !.pc = "done", !.result = res, !.today = 0, !.after = FALSE, !.it = 0]

Init ==
    /\ backend \in Backends
    /\ clock = [day |-> 1, after |-> FALSE]
    /\ lastReset = 0
    /\ resetLock = 0
    /\ items = EmptyItems
    /\ votes = EmptyBag
    /\ itemSeq = 0
    /\ rq = [t \in Threads |-> Idle]
    /\ started = 0
    /\ resets = [d \in Days |-> 0]
    /\ asked = {}
    /\ lastAdd = NoAdd
    /\ wipedAt = [d \in Days |-> NoWipe]

\* ----- environment

\* time passes: RESET_TIME is reached, then midnight
Tick ==
    /\ IF clock.after
       THEN clock.day < MaxDay /\ clock' = [day |-> clock.day + 1, after |-> FALSE]
       ELSE clock' = [clock EXCEPT !.after = TRUE]
    /\ UNCHANGED <<backend, lastReset, resetLock, items, votes, itemSeq, rq, started, resets, asked, lastAdd, wipedAt>>

\* a request arrives and is dispatched to its handler, on the first free worker thread
\* (the index route also calls maybe_reset and touches nothing else: on the
\* ledger and the watermark it behaves as the reset check of api_items)
Arrive(t, limit) ==
    /\ rq[t].pc \in {"idle", "done"}
    /\ \A u \in Threads : u < t => rq[u].pc \notin {"idle", "done"}
    /\ started < limit
    /\ started' = started + 1
    /\ \/ \E tok \in Tokens :
            rq' = [rq EXCEPT ![t] = [Idle EXCEPT !.pc = "mr_now", !.op = "list", !.voter = tok]]
       \/ \E n \in NameInputs :
            rq' = [rq EXCEPT ![t] = [Idle EXCEPT !.pc = "mr_now", !.op = "add", !.name = n]]
       \/ \E i \in ItemIds, tok \in Tokens :
            rq' = [rq EXCEPT ![t] = [Idle EXCEPT !.pc = "mr_now", !.op = "vote", !.item_id = i, !.voter = tok]]
    /\ UNCHANGED <<backend, clock, lastReset, resetLock, items, votes, itemSeq, resets, asked, lastAdd, wipedAt>>

\* the process is restarted: the module globals are initialised again, requests
\* in flight are gone, the database file stays as it is
\* (history: resets keeps counting the wipes of a calendar day across restarts)
Restart ==
    /\ lastReset' = 0
    /\ resetLock' = 0
    /\ rq' = [t \in Threads |-> Idle]
    /\ wipedAt' = [d \in Days |-> NoWipe]
    /\ UNCHANGED <<backend, clock, items, votes, itemSeq, started, resets, asked, lastAdd>>

\* requests that may overlap
Start(t) == Arrive(t, MaxRequests)

\* a request that arrives when no other is in flight
SeqStart(t) == Quiet /\ Arrive(t, MaxSeqRequests)

\* requests that may overlap, for the specification with fair scheduling
FairStart(t) == Arrive(t, MaxFairRequests)


\* ----- maybe_reset (called first by every handler)

\* now = datetime.now(tz); today = now.date()
ReadClock(t) ==
    /\ rq[t].pc = "mr_now"
    /\ rq' = [rq EXCEPT ![t].pc = "mr_check", ![t].today = clock.day, ![t].after = clock.after]
    /\ UNCHANGED <<backend, clock, lastReset, resetLock, items, votes, itemSeq, started, resets, asked, lastAdd, wipedAt>>

\* seeded fault: the time of day is not tested
ResetPending_DateOnly(t) == lastReset # rq[t].today

\* the lock-free test: the reset is pending for the caller's `today`
ResetPending(t) == lastReset # rq[t].today /\ rq[t].after

\* if _last_reset_date == today: return / if now.time() < RESET_TIME: return
FirstCheck(t) ==
    /\ rq[t].pc = "mr_check"
    /\ rq' = [rq EXCEPT ![t] = IF ResetPending(t) THEN [rq[t] EXCEPT !.pc = "mr_lock"] ELSE Return(t)]
    /\ UNCHANGED <<backend, clock, lastReset, resetLock, items, votes, itemSeq, started, resets, asked, lastAdd, wipedAt>>

\* with _reset_lock: (entry)
AcquireLock(t) ==
    /\ rq[t].pc = "mr_lock"
    /\ resetLock = 0
    /\ resetLock' = t
    /\ rq' = [rq EXCEPT ![t].pc = "mr_recheck"]
    /\ UNCHANGED <<backend, clock, lastReset, items, votes, itemSeq, started, resets, asked, lastAdd, wipedAt>>

\* seeded fault: the test under the lock always finds the reset done
StillPending_Never(t) == FALSE

\* the test repeated under the lock
StillPending(t) == lastReset # rq[t].today

\* if _last_reset_date == today: return   (leaving the with block releases the lock)
Recheck(t) ==
    /\ rq[t].pc = "mr_recheck"
    /\ IF StillPending(t)
       THEN /\ rq' = [rq EXCEPT ![t].pc = "mr_wipe"]
            /\ UNCHANGED resetLock
       ELSE /\ rq' = [rq EXCEPT ![t] = Return(t)]
            /\ resetLock' = 0
    /\ UNCHANGED <<backend, clock, lastReset, items, votes, itemSeq, started, resets, asked, lastAdd, wipedAt>>

\* Vote.query.delete(); Item.query.delete(); db.session.commit()
\* (history: wiped_on remembers the date of the commit until the watermark is set)
Wipe(t) ==
    /\ rq[t].pc = "mr_wipe"
    /\ items' = EmptyItems
    /\ votes' = EmptyBag
    /\ resets' = [resets EXCEPT ![clock.day] = @ + 1]
    /\ asked' = {}
    /\ lastAdd' = NoAdd
    /\ wipedAt' = IF wipedAt[rq[t].today] = NoWipe THEN [wipedAt EXCEPT ![rq[t].today] = itemSeq] ELSE wipedAt
    /\ rq' = [rq EXCEPT ![t].pc = "mr_mark", ![t].wiped_on = clock.day]
    /\ UNCHANGED <<backend, clock, lastReset, resetLock, itemSeq, started>>

\* seeded fault: the watermark is advanced although the transaction failed
WipeFails_Advances(t) ==
    /\ rq[t].pc = "mr_wipe"
    /\ resetLock' = 0
    /\ lastReset' = rq[t].today
    /\ rq' = [rq EXCEPT ![t] = Finish(t, "reset_error")]
    /\ UNCHANGED <<backend, clock, items, votes, itemSeq, started, resets, asked, lastAdd, wipedAt>>

\* seeded fault: the failing transaction leaves the lock held
WipeFails_KeepsLock(t) ==
    /\ rq[t].pc = "mr_wipe"
    /\ rq' = [rq EXCEPT ![t] = Finish(t, "reset_error")]
    /\ UNCHANGED <<backend, clock, lastReset, resetLock, items, votes, itemSeq, started, resets, asked, lastAdd, wipedAt>>

\* a delete or the commit raises: the exception leaves the with block (the lock
\* is released) and the request ends in an error; nothing was committed
WipeFails(t) ==
    /\ rq[t].pc = "mr_wipe"
    /\ resetLock' = 0
    /\ rq' = [rq EXCEPT ![t] = Finish(t, "reset_error")]
    /\ UNCHANGED <<backend, clock, lastReset, items, votes, itemSeq, started, resets, asked, lastAdd, wipedAt>>

\* seeded fault: the watermark is left as it was
MarkDate_Unchanged(t) == lastReset

\* the date the watermark is advanced to
MarkDate(t) == rq[t].today

\* _last_reset_date = today; log; leave the with block (release the lock)
Mark(t) ==
    /\ rq[t].pc = "mr_mark"
    /\ lastReset' = MarkDate(t)
    /\ resetLock' = 0
    /\ rq' = [rq EXCEPT ![t] = [Return(t) EXCEPT !.wiped_on = 0]]
    /\ UNCHANGED <<backend, clock, items, votes, itemSeq, started, resets, asked, lastAdd, wipedAt>>

MaybeReset(t) ==
    \/ ReadClock(t)
    \/ FirstCheck(t)
    \/ AcquireLock(t)
    \/ Recheck(t)
    \/ Wipe(t)
    \/ WipeFails(t)
    \/ Mark(t)

\* ----- api_items

\* seeded fault: ORDER BY votes ASC
RanksBefore_VotesAscending(i, j) ==
    \/ items[i].votes < items[j].votes
    \/ items[i].votes = items[j].votes /\ items[i].created_at < items[j].created_at

\* ORDER BY votes DESC, created_at ASC
RanksBefore(i, j) ==
    \/ items[i].votes > items[j].votes
    \/ items[i].votes = items[j].votes /\ items[i].created_at < items[j].created_at

RECURSIVE OrderBy(_)
OrderBy(S) ==
    IF S = {} THEN <<>>
    ELSE LET i == CHOOSE x \in S : \A y \in S \ {x} : RanksBefore(x, y)
         IN <<i>> \o OrderBy(S \ {i})

\* items = Item.query.order_by(Item.votes.desc(), Item.created_at.asc()).all()
ListItems(t) ==
    /\ rq[t].pc = "list_items"
    /\ LET ids == OrderBy(DOMAIN items)
       IN rq' = [rq EXCEPT ![t].pc = "list_votes",
                           ![t].rows = [k \in 1..Len(ids) |->
                                          [id |-> ids[k], name |-> items[ids[k]].name,
                                           votes |-> items[ids[k]].votes, voted_by_me |-> FALSE]]]
    /\ UNCHANGED <<backend, clock, lastReset, resetLock, items, votes, itemSeq, started, resets, asked, lastAdd, wipedAt>>

\* votes = Vote.query.filter_by(voter_token=voter).all(); return jsonify([...])
ListVotes(t) ==
    /\ rq[t].pc = "list_votes"
    /\ LET voted_item_ids == {p[1] : p \in {q \in DOMAIN votes : q[2] = rq[t].voter}}
       IN rq' = [rq EXCEPT ![t] = [Finish(t, "ok") EXCEPT
                    !.rows = [k \in 1..Len(rq[t].rows) |->
                                [rq[t].rows[k] EXCEPT !.voted_by_me = (rq[t].rows[k].id \in voted_item_ids)]]]]
    /\ UNCHANGED <<backend, clock, lastReset, resetLock, items, votes, itemSeq, started, resets, asked, lastAdd, wipedAt>>

\* ----- api_add_item

\* name = (data.get("name") or "").strip(); the 400 answers; else fall through to the insert
AddCheck(t) ==
    /\ rq[t].pc = "add_check"
    /\ LET name == Strip(rq[t].name)
       IN rq' = [rq EXCEPT ![t] =
                    IF name = <<>> THEN Finish(t, "validation")
                    ELSE IF ExistingByName(name) THEN Finish(t, "duplicate")
                    ELSE [rq[t] EXCEPT !.pc = "add_insert"]]
    /\ UNCHANGED <<backend, clock, lastReset, resetLock, items, votes, itemSeq, started, resets, asked, lastAdd, wipedAt>>

\* seeded fault: the row is created with one vote
NewItem_OneVote(name) == [name |-> name, votes |-> 1, created_at |-> itemSeq + 1]

\* Item(name=name, votes=0), created_at by its default
NewItem(name) == [name |-> name, votes |-> 0, created_at |-> itemSeq + 1]

\* it = Item(name=name, votes=0); db.session.add(it); db.session.commit()
AddInsert(t) ==
    /\ rq[t].pc = "add_insert"
    /\ LET id == NewItemId
           row == NewItem(Strip(rq[t].name))
       IN /\ items' = [i \in DOMAIN items \cup {id} |-> IF i = id THEN row ELSE items[i]]
          /\ rq' = [rq EXCEPT ![t].pc = "add_ret", ![t].ret.id = id, ![t].writes = @ + 1]
    /\ itemSeq' = itemSeq + 1
    /\ UNCHANGED <<backend, clock, lastReset, resetLock, votes, started, resets, asked, lastAdd, wipedAt>>

\* return jsonify({... it.id, it.name, it.votes}): the commit expired `it`, so the
\* attributes are loaded again; the row may be gone (ObjectDeletedError)
AddReturn(t) ==
    /\ rq[t].pc = "add_ret"
    /\ LET id == rq[t].ret.id
       IN IF id \in DOMAIN items
          THEN /\ rq' = [rq EXCEPT ![t] = [Finish(t, "ok") EXCEPT
                                             !.ret = [id |-> id, name |-> items[id].name,
                                                      votes |-> items[id].votes]]]
               /\ lastAdd' = [id |-> id, name |-> items[id].name]
          ELSE /\ rq' = [rq EXCEPT ![t] = Finish(t, "error")]
               /\ UNCHANGED lastAdd
    /\ UNCHANGED <<backend, clock, lastReset, resetLock, items, votes, itemSeq, started, resets, asked, wipedAt>>

\* ----- api_vote

\* seeded fault: the existence test is dropped
VoteGet_NoCheck(t) ==
    /\ rq[t].pc = "vote_get"
    /\ rq' = [rq EXCEPT ![t].pc = "vote_insert"]
    /\ asked' = asked \cup {<<rq[t].item_id, rq[t].voter>>}
    /\ UNCHANGED <<backend, clock, lastReset, resetLock, items, votes, itemSeq, started, resets, lastAdd, wipedAt>>

\* it = Item.query.get_or_404(item_id)
\* (the attributes loaded here are expired by the commit that follows and never read)
VoteGet(t) ==
    /\ rq[t].pc = "vote_get"
    /\ IF rq[t].item_id \in DOMAIN items
       THEN /\ rq' = [rq EXCEPT ![t].pc = "vote_insert"]
            /\ asked' = asked \cup {<<rq[t].item_id, rq[t].voter>>}
       ELSE /\ rq' = [rq EXCEPT ![t] = Finish(t, "not_found")]
            /\ UNCHANGED asked
    /\ UNCHANGED <<backend, clock, lastReset, resetLock, items, votes, itemSeq, started, resets, lastAdd, wipedAt>>

\* seeded fault: the IntegrityError is swallowed and the handler goes on to the increment
VoteInsert_IgnoreConflict(t) ==
    /\ rq[t].pc = "vote_insert"
    /\ IF UniqueViolation(rq[t].item_id, rq[t].voter) \/ ForeignKeyViolation(rq[t].item_id)
       THEN /\ rq' = [rq EXCEPT ![t].pc = "vote_load"]
            /\ UNCHANGED <<votes, lastAdd>>
       ELSE /\ votes' = votes (+) SetToBag({<<rq[t].item_id, rq[t].voter>>})
            /\ lastAdd' = NoAdd
            /\ rq' = [rq EXCEPT ![t].pc = "vote_load", ![t].writes = @ + 1]
    /\ UNCHANGED <<backend, clock, lastReset, resetLock, items, itemSeq, started, resets, asked, wipedAt>>

\* v = Vote(...); db.session.add(v); commit; except IntegrityError: rollback, 400
VoteInsert(t) ==
    /\ rq[t].pc = "vote_insert"
    /\ IF UniqueViolation(rq[t].item_id, rq[t].voter) \/ ForeignKeyViolation(rq[t].item_id)
       THEN /\ rq' = [rq EXCEPT ![t] = Finish(t, "already_voted")]
            /\ UNCHANGED <<votes, lastAdd>>
       ELSE /\ votes' = votes (+) SetToBag({<<rq[t].item_id, rq[t].voter>>})
            /\ lastAdd' = NoAdd
            /\ rq' = [rq EXCEPT ![t].pc = "vote_load", ![t].writes = @ + 1]
    /\ UNCHANGED <<backend, clock, lastReset, resetLock, items, itemSeq, started, resets, asked, wipedAt>>

\* the value the two assignments to it.votes leave in it.votes, given the
\* stored value v that the expired attribute is loaded with
Incremented(v) == (v + 1) + 1

\* it.votes = ... else it.votes + 1; it.votes = it.votes + 1
\* (the first read of it.votes loads the stored row; it may be gone)
VoteLoad(t) ==
    /\ rq[t].pc = "vote_load"
    /\ rq' = [rq EXCEPT ![t] =
                 IF rq[t].item_id \in DOMAIN items
                 THEN [rq[t] EXCEPT !.pc = "vote_update",
                                    !.it = Incremented(items[rq[t].item_id].votes)]
                 ELSE Finish(t, "error")]
    /\ UNCHANGED <<backend, clock, lastReset, resetLock, items, votes, itemSeq, started, resets, asked, lastAdd, wipedAt>>

\* db.session.add(it); db.session.commit(): UPDATE item SET votes = :it_votes
\* WHERE id = :id (no row matched: StaleDataError)
VoteUpdate(t) ==
    /\ rq[t].pc = "vote_update"
    /\ IF rq[t].item_id \in DOMAIN items
       THEN /\ items' = [items EXCEPT ![rq[t].item_id].votes = rq[t].it]
            /\ lastAdd' = NoAdd
            /\ rq' = [rq EXCEPT ![t].pc = "vote_ret", ![t].writes = @ + 1]
       ELSE /\ rq' = [rq EXCEPT ![t] = Finish(t, "error")]
            /\ UNCHANGED <<items, lastAdd>>
    /\ UNCHANGED <<backend, clock, lastReset, resetLock, votes, itemSeq, started, resets, asked, wipedAt>>

\* return jsonify({"ok": True, "id": it.id, "votes": it.votes}): loaded again after the commit
VoteReturn(t) ==
    /\ rq[t].pc = "vote_ret"
    /\ LET id == rq[t].item_id
       IN rq' = [rq EXCEPT ![t] =
                    IF id \in DOMAIN items
                    THEN [Finish(t, "ok") EXCEPT !.ret = [id |-> id, name |-> <<>>,
                                                          votes |-> items[id].votes]]
                    ELSE Finish(t, "error")]
    /\ UNCHANGED <<backend, clock, lastReset, resetLock, items, votes, itemSeq, started, resets, asked, lastAdd, wipedAt>>

Handler(t) ==
    \/ ListItems(t)
    \/ ListVotes(t)
    \/ AddCheck(t)
    \/ AddInsert(t)
    \/ AddReturn(t)
    \/ VoteGet(t)
    \/ VoteInsert(t)
    \/ VoteLoad(t)
    \/ VoteUpdate(t)
    \/ VoteReturn(t)

\* ----- specifications

\* threads interleave freely and the clock runs while requests are in flight
Next ==
    \/ Tick
    \/ \E t \in Threads : Start(t)
    \/ \E t \in Threads : MaybeReset(t)
    \/ \E t \in Threads : Handler(t)

Spec == Init /\ [][Next]_vars

\* one request at a time, and the clock is advanced only between requests
SeqNext ==
    \/ Quiet /\ Tick
    \/ \E t \in Threads : SeqStart(t)
    \/ \E t \in Threads : MaybeReset(t)
    \/ \E t \in Threads : Handler(t)

SeqSpec == Init /\ [][SeqNext]_vars

\* one request at a time, and the process may be restarted at any moment
RestartNext ==
    \/ SeqNext
    \/ Restart

RestartSpec == Init /\ [][RestartNext]_vars

\* threads interleave freely; a thread that can take a step is eventually
\* scheduled, and every statement it runs completes or raises
FairNext ==
    \/ Tick
    \/ \E t \in Threads : FairStart(t)
    \/ \E t \in Threads : MaybeReset(t)
    \/ \E t \in Threads : Handler(t)

FairSpec ==
    /\ Init
    /\ [][FairNext]_vars
    /\ \A t \in Threads : WF_vars(MaybeReset(t)) /\ WF_vars(Handler(t))

\* ----- properties

\* C1: in every reachable state the vote table holds at most one row for each
\* (item_id, voter_token) pair, whatever the interleaving of the requests.
C1_OneVotePerPair == \A p \in DOMAIN votes : votes[p] <= 1

\* two requests of one voter for one item overlapped; one was refused while the
\* other, whose row is recorded, is still in its handler
C1_Witness ==
    \E t, u \in Threads :
        /\ t # u
        /\ rq[t].op = "vote" /\ rq[u].op = "vote"
        /\ rq[t].item_id = rq[u].item_id /\ rq[t].voter = rq[u].voter
        /\ rq[t].pc = "done" /\ rq[t].result = "already_voted"
        /\ rq[u].pc \in {"vote_load", "vote_update", "vote_ret"}
        /\ VoteRows(rq[u].item_id, rq[u].voter) = 1

\* C2: in every committed state every live Item has votes equal to the number of
\* Vote rows that reference it.
C2_CounterEqualsVoteRows == \A i \in DOMAIN items : items[i].votes = VoteCount(i)

NoReset == \A d \in Days : resets[d] = 0

\* C3: once all calls have completed and no reset happened, an item voted for by
\* N distinct tokens has exactly N Vote rows and votes = N.
C3_AllVotesCounted ==
    (Quiet /\ NoReset) =>
        \A i \in DOMAIN items :
            LET N == Cardinality({tok \in Tokens : <<i, tok>> \in asked})
            IN VoteCount(i) = N /\ items[i].votes = N

\* C4: a cast_vote whose (item, token) row is already recorded fails with the
\* already-voted answer and its failing step changes no Item and no Vote; the
\* request has committed nothing.
C4_SecondVoteRejected ==
    [][\A t \in Threads :
          (rq[t].pc = "vote_insert" /\ rq'[t].pc # "vote_insert"
             /\ VoteRows(rq[t].item_id, rq[t].voter) > 0)
          => (rq'[t].pc = "done" /\ rq'[t].result = "already_voted" /\ rq'[t].writes = 0
              /\ items' = items /\ votes' = votes)]_vars

\* a second vote on a live item was refused and the first vote's row is the only one
C4_Witness ==
    \E t \in Threads :
        /\ rq[t].pc = "done" /\ rq[t].op = "vote" /\ rq[t].result = "already_voted"
        /\ rq[t].item_id \in DOMAIN items
        /\ VoteRows(rq[t].item_id, rq[t].voter) = 1

\* C5: within one process lifetime the wipe is executed at most once per calendar date.
C5_WipeOncePerDate == \A d \in Days : resets[d] <= 1

\* pcs of maybe_reset
InMaybeReset(t) == rq[t].pc \in {"mr_now", "mr_check", "mr_lock", "mr_recheck", "mr_wipe", "mr_mark"}

\* C6: (requests one after another, clock advanced between them) when a call's
\* reset check returns at or after the reset time, the watermark is today's
\* date; if the watermark was not today's date before that step, no Item and
\* no Vote is left; and no date sees a second wipe.
C6_FirstCallResets ==
    [][/\ \A t \in Threads :
            (InMaybeReset(t) /\ rq'[t].pc = Body(rq[t].op) /\ clock.after)
            => /\ lastReset' = clock.day
               /\ lastReset # clock.day => (items' = EmptyItems /\ votes' = EmptyBag)
       /\ \A d \in Days : resets'[d] <= 1]_vars

\* after the day's wipe an item was added, and a later call on that date has
\* passed its reset check with the item still there
C6_Witness ==
    /\ clock.after /\ lastReset = clock.day /\ resets[clock.day] = 1
    /\ items # EmptyItems
    /\ \E t \in Threads : rq[t].pc = "list_items"

\* C7: no two live Items have names equal under case-insensitive comparison.
C7_NamesUnique ==
    \A i, j \in DOMAIN items : i # j => Lower(items[i].name) # Lower(items[j].name)

Blank(s) == \A k \in 1..Len(s) : s[k] = " "

\* C9: an add_item whose name is empty after trimming never reaches the insert,
\* commits nothing, and (unless its reset check raised) answers with the
\* validation error.
C9_BlankNameRejected ==
    \A t \in Threads :
        (rq[t].op = "add" /\ Blank(rq[t].name))
        => /\ rq[t].pc \notin {"add_insert", "add_ret"}
           /\ rq[t].writes = 0
           /\ rq[t].pc = "done" => rq[t].result \in {"validation", "reset_error"}

\* add_item(" ") was answered with the validation error
C9_Witness ==
    \E t \in Threads :
        /\ rq[t].pc = "done" /\ rq[t].op = "add" /\ rq[t].name = <<" ">>
        /\ rq[t].result = "validation"

\* C10: a cast_vote whose item_id no live Item has fails with the not-found
\* answer; that step changes no Item and no Vote, and the request has
\* committed nothing.
C10_VoteOnMissingItem ==
    [][\A t \in Threads :
          (rq[t].pc = "vote_get" /\ rq'[t].pc # "vote_get" /\ rq[t].item_id \notin DOMAIN items)
          => (rq'[t].pc = "done" /\ rq'[t].result = "not_found" /\ rq'[t].writes = 0
              /\ items' = items /\ votes' = votes)]_vars

\* a vote for an id that is not among the live Items was answered not-found
C10_Witness ==
    \E t \in Threads :
        /\ rq[t].pc = "done" /\ rq[t].op = "vote" /\ rq[t].result = "not_found"
        /\ items # EmptyItems /\ rq[t].item_id \notin DOMAIN items

\* C11: the query of list_items returns every live Item exactly once with its
\* stored name and votes, ordered by votes descending and then created_at
\* ascending; the answer marks an entry voted_by_me exactly when a Vote row
\* for (its id, the caller's token) exists; neither step changes an Item or a
\* Vote, and the request commits nothing.
C11_Listing ==
    [][\A t \in Threads :
          /\ (rq[t].pc = "list_items" /\ rq'[t].pc # "list_items")
             => LET r == rq'[t].rows
                IN /\ Len(r) = Cardinality(DOMAIN items)
                   /\ {r[k].id : k \in 1..Len(r)} = DOMAIN items
                   /\ \A k \in 1..Len(r) :
                         r[k].name = items[r[k].id].name /\ r[k].votes = items[r[k].id].votes
                   /\ \A k, m \in 1..Len(r) :
                         k < m => \/ r[k].votes > r[m].votes
                                  \/ /\ r[k].votes = r[m].votes
                                     /\ items[r[k].id].created_at <= items[r[m].id].created_at
                   /\ items' = items /\ votes' = votes
          /\ (rq[t].pc = "list_votes" /\ rq'[t].pc # "list_votes")
             => LET r == rq[t].rows
                    a == rq'[t].rows
                IN /\ rq'[t].pc = "done" /\ rq'[t].result = "ok" /\ rq'[t].writes = 0
                   /\ Len(a) = Len(r)
                   /\ \A k \in 1..Len(r) :
                         /\ a[k].id = r[k].id /\ a[k].name = r[k].name /\ a[k].votes = r[k].votes
                         /\ a[k].voted_by_me <=> (VoteRows(r[k].id, rq[t].voter) > 0)
                   /\ items' = items /\ votes' = votes]_vars

\* a listing of two Items in which the later-created one ranks first because it
\* has more votes, and which marks the caller's vote
C11_Witness ==
    \E t \in Threads :
        /\ rq[t].pc = "done" /\ rq[t].op = "list" /\ rq[t].result = "ok"
        /\ Len(rq[t].rows) = 2
        /\ rq[t].rows[1].votes > rq[t].rows[2].votes
        /\ rq[t].rows[1].id > rq[t].rows[2].id
        /\ rq[t].rows[1].voted_by_me /\ ~rq[t].rows[2].voted_by_me

\* r is s without its leading and trailing whitespace
IsTrimOf(r, s) ==
    /\ r = <<>> \/ (r[1] # " " /\ r[Len(r)] # " ")
    /\ \E a \in 0..Len(s) :
          /\ a + Len(r) <= Len(s)
          /\ SubSeq(s, a + 1, a + Len(r)) = r
          /\ \A k \in 1..Len(s) : (k <= a \/ k > a + Len(r)) => s[k] = " "

\* the rows of a listing hold the Item answered by the latest add_item, with no votes
HasLastAdd(r) ==
    \E k \in 1..Len(r) : r[k].id = lastAdd.id /\ r[k].name = lastAdd.name /\ r[k].votes = 0

\* C12: (requests one after another) a successful add_item answers the trimmed
\* name with votes = 0, and a list_items that follows it with no vote and no
\* reset in between holds an entry with the answered id, that name and votes = 0.
C12_RoundTrip ==
    [][\A t \in Threads :
          /\ (rq[t].pc = "add_ret" /\ rq'[t].pc = "done" /\ rq'[t].result = "ok")
             => /\ IsTrimOf(rq'[t].ret.name, rq[t].name)
                /\ rq'[t].ret.votes = 0
                /\ rq'[t].ret.id \in DOMAIN items
          /\ (rq[t].pc = "list_items" /\ rq'[t].pc # "list_items" /\ lastAdd # NoAdd)
             => HasLastAdd(rq'[t].rows)
          /\ (rq[t].pc = "list_votes" /\ rq'[t].pc # "list_votes" /\ lastAdd # NoAdd)
             => HasLastAdd(rq'[t].rows)]_vars

\* a listing answered after a successful add_item holds the added Item beside an older one
C12_Witness ==
    \E t \in Threads :
        /\ rq[t].pc = "done" /\ rq[t].op = "list" /\ rq[t].result = "ok"
        /\ lastAdd # NoAdd
        /\ Len(rq[t].rows) = 2
        /\ HasLastAdd(rq[t].rows)

\* C13: whatever the interleaving of a reset with a cast_vote or an add_item,
\* every Vote row in the ledger references a live Item.
C13_NoOrphanVotes == \A p \in DOMAIN votes : p[1] \in DOMAIN items

\* pcs of the block under `with _reset_lock`
InLockedSection(t) == rq[t].pc \in {"mr_recheck", "mr_wipe", "mr_mark"}

\* C14: the query of a list_items whose reset check read a time at or after the
\* reset time of date D runs after this process committed a wipe for D, and
\* every Item it returns was created after the first such wipe; the locked
\* section is entered by one request at a time, so a request that finds the
\* reset pending while another one wipes waits at the lock.
C14_NoPreResetRead ==
    [][\A t \in Threads :
          /\ (rq[t].pc = "list_items" /\ rq'[t].pc # "list_items" /\ rq[t].after)
             => /\ wipedAt[rq[t].today] # NoWipe
                /\ \A k \in 1..Len(rq'[t].rows) :
                      items[rq'[t].rows[k].id].created_at > wipedAt[rq[t].today]
          /\ InLockedSection(t) <=> resetLock = t
          /\ (rq[t].pc = "mr_lock" /\ rq'[t].pc # "mr_lock") => resetLock = 0]_vars

\* the query of a listing whose reset check ran at or after the reset time has
\* returned the one Item added since the wipe, not the Item added before it
C14_Witness ==
    \E t \in Threads :
        /\ rq[t].pc = "list_votes" /\ rq[t].after /\ rq[t].today = clock.day
        /\ lastReset = clock.day /\ resets[clock.day] = 1
        /\ wipedAt[clock.day] = 1
        /\ Len(rq[t].rows) = 1
        /\ rq[t].rows[1].id \in DOMAIN items
        /\ items[rq[t].rows[1].id].created_at = 2

\* C15: the step in which the reset transaction fails leaves the watermark as it
\* was (different from the caller's today, so the reset stays pending),
\* releases the lock and changes no Item and no Vote; and while the reset is
\* pending for a request's today, its lock-free test sends it to the lock and
\* its test under the lock sends it to the wipe.
C15_FailedResetRetried ==
    [][\A t \in Threads :
          /\ (rq[t].pc = "mr_wipe" /\ rq'[t].pc = "done")
             => /\ rq'[t].result = "reset_error"
                /\ lastReset' = lastReset /\ lastReset' # rq[t].today
                /\ resetLock = t /\ resetLock' = 0
                /\ items' = items /\ votes' = votes /\ resets' = resets
          /\ (rq[t].pc = "mr_check" /\ rq'[t].pc # "mr_check"
                /\ rq[t].after /\ lastReset # rq[t].today)
             => rq'[t].pc = "mr_lock"
          /\ (rq[t].pc = "mr_recheck" /\ rq'[t].pc # "mr_recheck" /\ lastReset # rq[t].today)
             => rq'[t].pc = "mr_wipe"]_vars

\* the first reset of day 1 failed in one request, and another request has then
\* taken the lock and committed the wipe
C15_Witness ==
    \E t, u \in Threads :
        /\ rq[t].pc = "done" /\ rq[t].result = "reset_error"
        /\ rq[u].pc = "mr_mark" /\ rq[u].today = 1
        /\ clock.day = 1 /\ lastReset = 0 /\ resets[1] = 1

\* C16: (with restarts) a wipe committed on a calendar date on which a wipe was
\* already committed removes no Item and no Vote.
C16_RefiredResetRemovesNothing ==
    [][\A t \in Threads :
          (rq[t].pc = "mr_wipe" /\ rq'[t].pc = "mr_mark" /\ resets[clock.day] >= 1)
          => (items' = items /\ votes' = votes)]_vars

\* C17: (requests one after another) the commit of a cast_vote's increment
\* leaves the stored votes of its Item exactly 1 above the value stored just
\* before it and changes no other Item's votes, and the answer carries the
\* stored votes.
C17_VoteAddsOne ==
    [][\A t \in Threads :
          /\ (rq[t].pc = "vote_update" /\ rq'[t].pc = "vote_ret")
             => /\ items'[rq[t].item_id].votes = items[rq[t].item_id].votes + 1
                /\ \A j \in DOMAIN items \ {rq[t].item_id} : items'[j].votes = items[j].votes
          /\ (rq[t].pc = "vote_ret" /\ rq'[t].pc = "done" /\ rq'[t].result = "ok")
             => rq'[t].ret.votes = items[rq[t].item_id].votes]_vars

\* C18: a reset check that finds the watermark equal to its today, or whose
\* clock reading is before the reset time, returns to the handler in that
\* step without taking the reset lock and leaves Items, Votes and the
\* watermark unchanged; only a request that read a time at or after the
\* reset time is ever at the lock or in the locked section.
C18_CheckIsNoOp ==
    [][\A t \in Threads :
          /\ (rq[t].pc = "mr_check" /\ rq'[t].pc # "mr_check"
                /\ (lastReset = rq[t].today \/ ~rq[t].after))
             => /\ rq'[t].pc = Body(rq[t].op)
                /\ resetLock' = resetLock
                /\ items' = items /\ votes' = votes /\ lastReset' = lastReset
          /\ (rq'[t].pc = "mr_lock" \/ InLockedSection(t)') => rq'[t].after]_vars

\* on day 2 before the reset time, with yesterday's watermark, a listing has
\* passed its reset check and the Item and the Vote of the day before are still there
C18_Witness ==
    \E t \in Threads :
        /\ rq[t].pc = "list_items" /\ rq[t].today = 2 /\ ~rq[t].after
        /\ clock.day = 2 /\ ~clock.after
        /\ lastReset = 1 /\ resetLock = 0
        /\ items # EmptyItems /\ votes # EmptyBag

\* C19: under fair scheduling every request that is in the reset check
\* eventually is out of it; every step that takes a request out of the locked
\* section, the failing one included, leaves the lock free; and whenever a
\* request waits at the lock, the lock is free or its holder is in the locked
\* section, where it can always take a step.
C19_NoBlocking ==
    /\ \A t \in Threads : InMaybeReset(t) ~> ~InMaybeReset(t)
    /\ [][\A t \in Threads :
             (InLockedSection(t) /\ ~InLockedSection(t)') => (resetLock = t /\ resetLock' = 0)]_vars
    /\ [](\A t \in Threads :
             rq[t].pc = "mr_lock" =>
                \/ resetLock = 0
                \/ \E u \in Threads : resetLock = u /\ InLockedSection(u))

\* one request failed in the wipe, and the request that waited at the lock behind
\* it now holds the lock
C19_Witness ==
    \E t, u \in Threads :
        /\ rq[u].pc = "done" /\ rq[u].result = "reset_error"
        /\ rq[t].pc = "mr_recheck" /\ resetLock = t
        /\ started = 2 /\ lastReset = 0

\* C20: the watermark changes only in a step of the request that holds the lock
\* and has committed a wipe, its new value is not earlier than the value it
\* replaces, and the new value is the date on which that wipe was committed.
C20_WatermarkForward ==
    [][lastReset' # lastReset =>
          \E t \in Threads :
             /\ rq[t].pc = "mr_mark" /\ resetLock = t
             /\ lastReset' >= lastReset
             /\ lastReset' = rq[t].wiped_on]_vars

=============================================================================
